---- MODULE Spec2Model ----
(***************************************************************************)
(* Workflow orchestration of CircuMetal-Agents: the three background tasks *)
(* that drive a run (run_orchestration_task, run_analysis_task,            *)
(* execute_run_task in api/server.py), Orchestrator.run, the run records   *)
(* pollers read, and run_with_retry.                                       *)
(***************************************************************************)
EXTENDS Integers, Sequences, FiniteSets, TLC

VARIABLES
    entry,      \* the entry point that drives this run: "orch", "analysis", "exec"
    pc,         \* position of the background task
    runs,       \* run_id -> record (orchestration_runs / analysis_jobs / runs collection)
    context,    \* local `context` of the task / of Orchestrator.run
    history,    \* local `history`: stage -> result
    returned,   \* stage -> the data map its handle returned, as returned
    res,        \* result of the stage invoked last, <<>> when none
    stage,      \* index of the current stage in OrchStages
    invoked,    \* stage-invocation log, in invocation order
    inputs,     \* stage -> the input its handle / run was given
    got,        \* what the result endpoint answered last, <<>> when never asked
    seen,       \* what the status endpoint answered last, <<>> when never asked
    exc,        \* the exception in flight, <<>> when none
    branches,   \* fan-out branch -> "idle", "running", "done", "raised", "cancelled"
    texts,      \* fan-out branch -> text the branch returned
    ret,        \* what Orchestrator.run gave its caller: <<>>, <<"returned">>, <<"raised">>
    script,     \* run_with_retry: what coro_func does on its 1st, 2nd, ... invocation
    retries,    \* run_with_retry: keyword argument retries
    initial_delay, \* run_with_retry: keyword argument initial_delay
    attempt,    \* run_with_retry: loop variable i
    delay,      \* run_with_retry: local delay
    calls,      \* run_with_retry: outcome of every invocation of coro_func, in order
    sleeps,     \* run_with_retry: every asyncio.sleep(delay) made, in order
    outcome,    \* run_with_retry: <<>> while running, else <<[kind, of]>>
    rpc         \* run_with_retry: "call", "sleep", "done"

pipeVars == <<seen, got, entry, pc, runs, context, history, returned, res, stage, invoked,
              inputs, exc, branches, texts, ret>>
retryVars == <<script, retries, initial_delay, attempt, delay, calls, sleeps,
               outcome, rpc>>
vars == <<seen, got, entry, pc, runs, context, history, returned, res, stage, invoked,
          inputs, exc, branches, texts, ret,
          script, retries, initial_delay, attempt, delay, calls, sleeps,
          outcome, rpc>>

-----------------------------------------------------------------------------
(* Values *)

RunId == "r1"
None == "None"
Empty == <<>>                     \* the empty dict {}

Entries == {"orch", "analysis", "exec"}

\* Keys of a dict, and dict.update: the right operand wins on collision.
Keys(d) == DOMAIN d
Update(ctx, data) == data @@ ctx

\* The run input built by the start endpoints.
UserInput == "material" :> "steel"

\* The stages run_orchestration_task steps through, in its order.
OrchStages == <<"data_agent", "estimation_agent", "lca_agent", "circularity_agent",
                "scenario_agent", "compliance_agent", "visualization_agent",
                "explain_agent", "critique_agent">>

AgentName(s) ==
    CASE s = "data_agent" -> "DataAgent"
      [] s = "estimation_agent" -> "EstimationAgent"
      [] s = "lca_agent" -> "LCAAgent"
      [] s = "circularity_agent" -> "CircularityAgent"
      [] s = "scenario_agent" -> "ScenarioAgent"
      [] s = "compliance_agent" -> "ComplianceAgent"
      [] s = "visualization_agent" -> "VisualizationAgent"
      [] s = "explain_agent" -> "ExplainAgent"
      [] s = "critique_agent" -> "CritiqueAgent"

\* progress written before each stage of run_orchestration_task.
OrchProgressSwapped(s) ==
    CASE s = "data_agent" -> 10
      [] s = "estimation_agent" -> 20
      [] s = "lca_agent" -> 35
      [] s = "circularity_agent" -> 50
      [] s = "scenario_agent" -> 70
      [] s = "compliance_agent" -> 60
      [] s = "visualization_agent" -> 80
      [] s = "explain_agent" -> 90
      [] s = "critique_agent" -> 95

OrchProgress(s) ==
    CASE s = "data_agent" -> 10
      [] s = "estimation_agent" -> 20
      [] s = "lca_agent" -> 35
      [] s = "circularity_agent" -> 50
      [] s = "scenario_agent" -> 60
      [] s = "compliance_agent" -> 70
      [] s = "visualization_agent" -> 80
      [] s = "explain_agent" -> 90
      [] s = "critique_agent" -> 95

\* What a stage can return as data when it succeeds (two maps per merging
\* stage; "x" is a key several stages write).
StageData(s) ==
    CASE s = "data_agent" ->
            { ("material" :> "steel") @@ ("validated" :> "true"),
              ("validated" :> "true") @@ ("x" :> "data") }
      [] s = "estimation_agent" ->
            { ("material" :> "steel") @@ ("validated" :> "true") @@ ("x" :> "est"),
              ("energy" :> "12") }
      [] s = "lca_agent" ->
            { ("gwp" :> "1800"), ("gwp" :> "1800") @@ ("x" :> "lca") }
      [] s = "circularity_agent" ->
            { ("mci" :> "0.4"), ("mci" :> "0.4") @@ ("x" :> "circ") }
      [] s = "scenario_agent" -> { ("scenarios" :> "s1") @@ ("x" :> "scen") }
      [] s = "compliance_agent" -> { ("compliant" :> "true") }
      [] s = "visualization_agent" -> { ("charts" :> "c1") }
      [] s = "explain_agent" -> { ("report_markdown" :> "md") }
      [] s = "critique_agent" -> { ("score" :> "8") }

\* Data a result whose status is not success can carry.
FailureData(s) ==
    IF s = "lca_agent" THEN {Empty, ("gwp" :> "0")} ELSE {Empty}

\* Statuses a stage's own result can carry.
StageStatuses(s) ==
    IF s = "data_agent" THEN {"success", "partial", "failure"}
    ELSE {"success", "failure"}

\* The stages whose body is also taken to raise inside handle's try.
RaisingBodies == {"data_agent", "estimation_agent", "lca_agent", "circularity_agent"}

\* What the body of a stage does: it returns a result dict or raises.
BodyOutcomes(s) ==
    {[kind |-> "return", status |-> "success", data |-> d, log |-> "ok"] :
        d \in StageData(s)}
    \cup {[kind |-> "return", status |-> st, data |-> d, log |-> "missing field"] :
        st \in StageStatuses(s) \ {"success"}, d \in FailureData(s)}
    \cup (IF s \in RaisingBodies
          THEN {[kind |-> "raise", status |-> None, data |-> Empty, log |-> "boom"]}
          ELSE {})

\* handle(): the body's result, or, when the body raised inside handle's try,
\* a failure dict carrying the exception text.
Handle(s, body) ==
    IF body.kind = "raise"
    THEN [status |-> "failure", data |-> Empty,
          log |-> <<"Error in", AgentName(s), body.log>>]
    ELSE [status |-> body.status, data |-> body.data, log |-> <<body.log>>]

\* res.get('status') == 'success'
IsSuccessAlways(r) == TRUE
IsSuccess(r) == r.status = "success"

\* context = res.get('data', {}) for the intake and estimation stages,
\* context.update(data) for the two calculation stages, nothing for the rest.
MergeReplaceAll(s, ctx, data) ==
    IF s \in {"data_agent", "estimation_agent", "lca_agent", "circularity_agent"}
    THEN data ELSE ctx
MergeOrch(s, ctx, data) ==
    CASE s \in {"data_agent", "estimation_agent"} -> data
      [] s \in {"lca_agent", "circularity_agent"} -> Update(ctx, data)
      [] OTHER -> ctx

\* viz_context: the context copy with project_id, project_name and action set
VizExtras == ("project_id" :> None) @@ ("project_name" :> "Unknown")
             @@ ("action" :> "generate")

\* What run_orchestration_task hands to a stage's handle.
StageInput(s, ctx, hist) ==
    CASE s = "visualization_agent" -> Update(ctx, VizExtras)
      [] s = "explain_agent" -> [current_context |-> ctx, history |-> hist]
      [] s = "critique_agent" -> hist
      [] OTHER -> ctx

LogEntry(agent, level) == [agent |-> agent, level |-> level]

-----------------------------------------------------------------------------
(* Run records *)

\* start_orchestration: the record put into orchestration_runs.
OrchRecord == [status |-> "starting", progress |-> 0, current |-> None,
               logs |-> <<>>, result |-> <<>>, completed_at |-> None,
               error |-> None, extras |-> {}]

\* start_analysis: the record put into analysis_jobs.
AnalysisRecord == [status |-> "pending", progress |-> 0, current |-> "Queued",
                   logs |-> <<>>, result |-> <<>>, completed_at |-> None,
                   error |-> None, extras |-> {}]

\* create_run: the document inserted into the runs collection.
DbRecord == [status |-> "pending", progress |-> 0, current |-> None,
             logs |-> <<>>, result |-> <<>>, completed_at |-> None,
             error |-> None, extras |-> {}]

Rec == runs[RunId]
Started == RunId \in DOMAIN runs

SetField(f, v) == runs' = [runs EXCEPT ![RunId][f] = v]
\* add_orchestration_log / add_run_log: append one entry to the record's logs.
AddLog(agent, level) ==
    runs' = [runs EXCEPT ![RunId].logs = Append(@, LogEntry(agent, level))]

PipeInit ==
    /\ entry \in Entries
    /\ pc = "idle"
    /\ runs = <<>>
    /\ context = Empty
    /\ history = Empty
    /\ returned = Empty
    /\ res = <<>>
    /\ stage = 1
    /\ invoked = <<>>
    /\ inputs = Empty
    /\ got = <<>>
    /\ seen = <<>>
    /\ exc = <<>>
    /\ branches = [b \in {"lca_agent", "circularity_agent"} |-> "idle"]
    /\ texts = Empty
    /\ ret = <<>>

RetryIdle ==
    /\ script = <<>>
    /\ retries = 0
    /\ initial_delay = 0
    /\ attempt = 0
    /\ delay = 0
    /\ calls = <<>>
    /\ sleeps = <<>>
    /\ outcome = <<>>
    /\ rpc = "idle"

Init == PipeInit /\ RetryIdle

-----------------------------------------------------------------------------
(* The start endpoints *)

\* start_orchestration / start_analysis / start_run: create the record and
\* queue the background task.
Start ==
    /\ pc = "idle"
    /\ runs' = (RunId :> (CASE entry = "orch" -> OrchRecord
                            [] entry = "analysis" -> AnalysisRecord
                            [] entry = "exec" -> DbRecord))
    /\ pc' = "queued"
    /\ UNCHANGED <<seen, got, entry, context, history, returned, res, stage, invoked, inputs, exc,
                   branches, texts, ret>>
    /\ UNCHANGED retryVars

-----------------------------------------------------------------------------
(* run_orchestration_task *)

Stage == OrchStages[stage]
LastStage == stage = Len(OrchStages)

PipeFrame == UNCHANGED <<seen, got, entry, context, history, returned, res, stage, invoked, inputs, exc,
                         branches, texts, ret>>

\* the task leaves the stage it is in: the next stage, or the completion block
AfterStage ==
    IF LastStage THEN pc' = "o_c_status" /\ stage' = stage
    ELSE pc' = "o_current" /\ stage' = stage + 1

O_Running ==
    /\ pc = "queued" /\ entry = "orch"
    /\ SetField("status", "running")
    /\ pc' = "o_initlog"
    /\ PipeFrame /\ UNCHANGED retryVars

O_InitLog ==
    /\ pc = "o_initlog"
    /\ AddLog("Orchestrator", "info")
    /\ context' = UserInput
    /\ history' = Empty
    /\ returned' = Empty
    /\ pc' = "o_current"
    /\ UNCHANGED <<seen, got, entry, res, stage, invoked, inputs, exc, branches, texts, ret>>
    /\ UNCHANGED retryVars

O_SetCurrent ==
    /\ pc = "o_current"
    /\ SetField("current", AgentName(Stage))
    /\ pc' = "o_progress"
    /\ PipeFrame /\ UNCHANGED retryVars

O_SetProgress ==
    /\ pc = "o_progress"
    /\ SetField("progress", OrchProgress(Stage))
    /\ pc' = "o_startlog"
    /\ PipeFrame /\ UNCHANGED retryVars

O_StartLog ==
    /\ pc = "o_startlog"
    /\ IF Stage = "data_agent"
       THEN runs' = [runs EXCEPT ![RunId].logs =
                        @ \o <<LogEntry("DataAgent", "info"), LogEntry("DataAgent", "info")>>]
       ELSE AddLog(AgentName(Stage), "info")
    /\ pc' = "o_invoke"
    /\ PipeFrame /\ UNCHANGED retryVars

\* context = res.get('data', {}) binds `context` to the dict object held in
\* the history entry of the last of Data Agent and Estimation Agent that
\* succeeded; no copy is taken.
ContextAlias(hist) ==
    IF "estimation_agent" \in DOMAIN hist /\ IsSuccess(hist["estimation_agent"])
    THEN "estimation_agent"
    ELSE "data_agent"

\* context.update(...) therefore writes into that history entry's data too
Aliased(hist, ctx) ==
    IF ContextAlias(hist) \in DOMAIN hist
    THEN [hist EXCEPT ![ContextAlias(hist)].data = ctx]
    ELSE hist

\* agent = XAgent(); res = agent.handle(...); history[...] = res.  handle turns
\* what its body raises into a failure dict; what is raised outside handle's
\* try reaches the task's own except.
O_Invoke ==
    /\ pc = "o_invoke"
    /\ invoked' = Append(invoked, Stage)
    /\ inputs' = (Stage :> StageInput(Stage, context, history)) @@ inputs
    /\ \/ \E body \in BodyOutcomes(Stage) :
            /\ res' = <<Handle(Stage, body)>>
            /\ history' = (Stage :> Handle(Stage, body)) @@ history
            /\ returned' = (Stage :> Handle(Stage, body).data) @@ returned
            /\ pc' = "o_result"
            /\ exc' = exc
       \/ /\ exc' = <<"stage raised">>
          /\ pc' = "o_x_status"
          /\ UNCHANGED <<res, history, returned>>
    /\ UNCHANGED <<seen, got, entry, runs, context, stage, branches, texts, ret>>
    /\ UNCHANGED retryVars

\* the if/else after each stage
O_Result ==
    /\ pc = "o_result"
    /\ IF IsSuccess(res[1])
       THEN /\ AddLog(AgentName(Stage), "success")
            /\ context' = MergeOrch(Stage, context, res[1].data)
            /\ history' = IF Stage \in {"lca_agent", "circularity_agent"}
                          THEN Aliased(history, context')
                          ELSE history
            /\ IF Stage = "explain_agent"
               THEN pc' = "o_report" /\ stage' = stage
               ELSE AfterStage
       ELSE /\ UNCHANGED <<context, history>>
            /\ IF Stage = "data_agent"
               THEN /\ AddLog("DataAgent", "error")
                    /\ pc' = "o_fail_status" /\ stage' = stage
               ELSE /\ AddLog(AgentName(Stage), "warning")
                    /\ AfterStage
    /\ UNCHANGED <<seen, got, entry, returned, res, invoked, inputs, exc, branches, texts, ret>>
    /\ UNCHANGED retryVars

O_FailStatus ==
    /\ pc = "o_fail_status"
    /\ SetField("status", "failed")
    /\ pc' = "o_fail_error"
    /\ PipeFrame /\ UNCHANGED retryVars

O_FailError ==
    /\ pc = "o_fail_error"
    /\ SetField("error", "Data Agent failed")
    /\ pc' = "done"
    /\ PipeFrame /\ UNCHANGED retryVars

\* the report save inside its own try: create_report returns, or raises and
\* the except logs a warning
O_Report ==
    /\ pc = "o_report"
    /\ \/ /\ SetField("extras", Rec.extras \cup {"report_id"})
          /\ pc' = "o_report_log" /\ stage' = stage
       \/ /\ AddLog("ExplainAgent", "warning")
          /\ AfterStage
    /\ UNCHANGED <<seen, got, entry, context, history, returned, res, invoked, inputs, exc, branches, texts,
                   ret>>
    /\ UNCHANGED retryVars

O_ReportLog ==
    /\ pc = "o_report_log"
    /\ AddLog("ExplainAgent", "success")
    /\ AfterStage
    /\ UNCHANGED <<seen, got, entry, context, history, returned, res, invoked, inputs, exc, branches, texts,
                   ret>>
    /\ UNCHANGED retryVars

O_CompleteStatus ==
    /\ pc = "o_c_status"
    /\ SetField("status", "completed")
    /\ pc' = "o_c_progress"
    /\ PipeFrame /\ UNCHANGED retryVars

O_CompleteProgress ==
    /\ pc = "o_c_progress"
    /\ SetField("progress", 100)
    /\ pc' = "o_c_current"
    /\ PipeFrame /\ UNCHANGED retryVars

O_CompleteCurrent ==
    /\ pc = "o_c_current"
    /\ SetField("current", None)
    /\ pc' = "o_c_completed_at"
    /\ PipeFrame /\ UNCHANGED retryVars

O_CompleteAt ==
    /\ pc = "o_c_completed_at"
    /\ SetField("completed_at", "now")
    /\ pc' = "o_c_result"
    /\ PipeFrame /\ UNCHANGED retryVars

O_CompleteResult ==
    /\ pc = "o_c_result"
    /\ SetField("result", <<history>>)
    /\ pc' = "o_c_log"
    /\ PipeFrame /\ UNCHANGED retryVars

O_CompleteLog ==
    /\ pc = "o_c_log"
    /\ AddLog("Orchestrator", "success")
    /\ pc' = "o_save"
    /\ PipeFrame /\ UNCHANGED retryVars

\* os.makedirs + save_json after the completion block, still inside the try
O_Save ==
    /\ pc = "o_save"
    /\ \/ pc' = "done" /\ exc' = exc
       \/ pc' = "o_x_status" /\ exc' = <<"save_json raised">>
    /\ UNCHANGED <<seen, got, entry, runs, context, history, returned, res, stage, invoked, inputs,
                   branches, texts, ret>>
    /\ UNCHANGED retryVars

\* except Exception as e:
O_ExceptStatus ==
    /\ pc = "o_x_status"
    /\ SetField("status", "failed")
    /\ pc' = "o_x_error"
    /\ PipeFrame /\ UNCHANGED retryVars

O_ExceptError ==
    /\ pc = "o_x_error"
    /\ SetField("error", exc[1])
    /\ pc' = "o_x_completed_at"
    /\ PipeFrame /\ UNCHANGED retryVars

O_ExceptAt ==
    /\ pc = "o_x_completed_at"
    /\ SetField("completed_at", "now")
    /\ pc' = "o_x_log"
    /\ PipeFrame /\ UNCHANGED retryVars

O_ExceptLog ==
    /\ pc = "o_x_log"
    /\ AddLog("Orchestrator", "error")
    /\ pc' = "done"
    /\ PipeFrame /\ UNCHANGED retryVars

OrchNext ==
    \/ O_Running \/ O_InitLog \/ O_SetCurrent \/ O_SetProgress \/ O_StartLog
    \/ O_Invoke \/ O_Result \/ O_FailStatus \/ O_FailError \/ O_Report
    \/ O_ReportLog \/ O_CompleteStatus \/ O_CompleteProgress \/ O_CompleteCurrent
    \/ O_CompleteAt \/ O_CompleteResult \/ O_CompleteLog \/ O_Save
    \/ O_ExceptStatus \/ O_ExceptError \/ O_ExceptAt \/ O_ExceptLog

-----------------------------------------------------------------------------
(* Orchestrator.run, as run_analysis_task and execute_run_task call it *)

FanOut == {"lca_agent", "circularity_agent"}

\* execute_run_task is a coroutine function: BackgroundTasks awaits it on the
\* server's event loop; the two plain functions run in a worker thread.
OnEventLoop == entry = "exec"

\* The event loop runs nothing else between two awaits of the coroutine it is
\* running: from the call of Orchestrator.run, a plain function, to the
\* except clause's first await.
LoopHeld ==
    /\ OnEventLoop
    /\ pc \in {"r_data", "r_estimation", "r_par_begin", "r_par", "r_merge",
               "r_scenario", "r_visualization", "e_await"}

RunFrame == UNCHANGED <<seen, got, entry, runs, stage>>

\* where Orchestrator.run's caller goes on when run returns / raises
ExceptPcNone == "unhandled"
ReturnPc == IF entry = "analysis" THEN "a_save" ELSE "e_await"
ExceptPc == IF entry = "analysis" THEN "a_x_status" ELSE "e_x_status"

\* 1. Data Agent: on a status other than success run returns the history
R_Data ==
    /\ pc = "r_data"
    /\ invoked' = Append(invoked, "data_agent")
    /\ inputs' = ("data_agent" :> context) @@ inputs
    /\ \/ \E body \in BodyOutcomes("data_agent") :
            LET r == Handle("data_agent", body) IN
            /\ res' = <<r>>
            /\ history' = ("data_agent" :> r) @@ history
            /\ returned' = ("data_agent" :> r.data) @@ returned
            /\ IF IsSuccess(r)
               THEN context' = r.data /\ pc' = "r_estimation" /\ ret' = ret
               ELSE context' = context /\ pc' = ReturnPc /\ ret' = <<"returned">>
            /\ exc' = exc
       \/ /\ exc' = <<"stage raised">>
          /\ ret' = <<"raised">>
          /\ pc' = ExceptPc
          /\ UNCHANGED <<res, history, returned, context>>
    /\ UNCHANGED <<branches, texts>>
    /\ RunFrame /\ UNCHANGED retryVars

\* 2. Estimation Agent
R_Estimation ==
    /\ pc = "r_estimation"
    /\ invoked' = Append(invoked, "estimation_agent")
    /\ inputs' = ("estimation_agent" :> context) @@ inputs
    /\ \/ \E body \in BodyOutcomes("estimation_agent") :
            LET r == Handle("estimation_agent", body) IN
            /\ res' = <<r>>
            /\ history' = ("estimation_agent" :> r) @@ history
            /\ returned' = ("estimation_agent" :> r.data) @@ returned
            /\ context' = IF IsSuccess(r) THEN r.data ELSE context
            /\ pc' = "r_par_begin"
            /\ UNCHANGED <<exc, ret>>
       \/ /\ exc' = <<"stage raised">>
          /\ ret' = <<"raised">>
          /\ pc' = ExceptPc
          /\ UNCHANGED <<res, history, returned, context>>
    /\ UNCHANGED <<branches, texts>>
    /\ RunFrame /\ UNCHANGED retryVars

\* What a fan-out branch's run_single_agent can return as final_text: a JSON
\* dict with a 'data' entry, or text json.loads rejects or without 'data'.
BranchTexts(b) ==
    {[kind |-> "json", status |-> "success", data |-> d] : d \in StageData(b)}
    \cup {[kind |-> "json", status |-> "failure", data |-> d] : d \in FailureData(b)}
    \cup {[kind |-> "nojson", status |-> None, data |-> Empty]}

\* 3. ParallelAgent.process: asyncio.gather starts one run_with_retry per
\* sub-agent, all given the same input text
R_ParBegin ==
    /\ pc = "r_par_begin"
    /\ IF OnEventLoop
       THEN \* asyncio.run refuses to run inside a running event loop: it
            \* raises RuntimeError and the except leaves parallel_res = {}
            /\ pc' = "r_merge"
            /\ UNCHANGED <<branches, invoked, inputs>>
       ELSE /\ branches' = [b \in FanOut |-> "running"]
            /\ invoked' = invoked \o <<"lca_agent", "circularity_agent">>
            /\ inputs' = [b \in FanOut |-> context] @@ inputs
            /\ pc' = "r_par"
    /\ texts' = Empty
    /\ UNCHANGED <<context, history, returned, res, exc, ret>>
    /\ RunFrame /\ UNCHANGED retryVars

\* a branch returns its text; gather returns once every branch has
R_ParReturn(b) ==
    /\ pc = "r_par"
    /\ branches[b] = "running"
    /\ \E t \in BranchTexts(b) :
          texts' = (b :> t) @@ texts
    /\ branches' = [branches EXCEPT ![b] = "done"]
    /\ pc' = IF \A o \in FanOut \ {b} : branches[o] = "done" THEN "r_merge" ELSE "r_par"
    /\ UNCHANGED <<context, history, returned, res, invoked, inputs, exc, ret>>
    /\ RunFrame /\ UNCHANGED retryVars

\* asyncio.run, once gather has raised: every task still running is cancelled
\* and awaited before asyncio.run returns
CancelRemainingNone(st) == st
CancelRemaining(st) == IF st = "running" THEN "cancelled" ELSE st

\* a branch's run_with_retry raises: gather raises at once, asyncio.run cancels
\* the branch still running, and the except leaves parallel_res = {}
R_ParRaise(b) ==
    /\ pc = "r_par"
    /\ branches[b] = "running"
    /\ branches' = [o \in FanOut |->
                      IF o = b THEN "raised" ELSE CancelRemaining(branches[o])]
    /\ texts' = texts
    /\ pc' = "r_merge"
    /\ UNCHANGED <<context, history, returned, res, invoked, inputs, exc, ret>>
    /\ RunFrame /\ UNCHANGED retryVars

\* the merge of one branch's text: context.update(json['data']) when the text
\* parses to a dict holding 'data'
MergeText(ctx, pres, b) ==
    IF b \in DOMAIN pres /\ pres[b].kind = "json"
    THEN Update(ctx, pres[b].data)
    ELSE ctx

MergeParallel(ctx, pres) ==
    MergeText(MergeText(ctx, pres, "lca_agent"), pres, "circularity_agent")

\* parallel_res: what the branches returned, or {} when the parallel stage
\* raised
ParallelRes(brs, txts) ==
    IF \E b \in DOMAIN brs : brs[b] = "raised" THEN Empty ELSE txts

R_Merge ==
    /\ pc = "r_merge"
    /\ context' = MergeParallel(context, ParallelRes(branches, texts))
    /\ history' = Aliased(("parallel_stage" :> ParallelRes(branches, texts)) @@ history,
                          context')
    /\ pc' = "r_scenario"
    /\ UNCHANGED <<returned, res, invoked, inputs, exc, branches, texts, ret>>
    /\ RunFrame /\ UNCHANGED retryVars

\* 4. Scenario Agent: its result goes to the history only
R_Scenario ==
    /\ pc = "r_scenario"
    /\ invoked' = Append(invoked, "scenario_agent")
    /\ inputs' = ("scenario_agent" :> context) @@ inputs
    /\ \/ \E body \in BodyOutcomes("scenario_agent") :
            LET r == Handle("scenario_agent", body) IN
            /\ res' = <<r>>
            /\ history' = ("scenario_agent" :> r) @@ history
            /\ returned' = ("scenario_agent" :> r.data) @@ returned
            /\ pc' = "r_visualization"
            /\ UNCHANGED <<exc, ret>>
       \/ /\ exc' = <<"stage raised">>
          /\ ret' = <<"raised">>
          /\ pc' = ExceptPc
          /\ UNCHANGED <<res, history, returned>>
    /\ UNCHANGED <<context, branches, texts>>
    /\ RunFrame /\ UNCHANGED retryVars

\* 5. Visualization Agent: VisualizationAgent.handle is the coroutine function
\* of BaseCircuMetalAgent, so the call returns a coroutine object and
\* _log_step's output_data.get raises AttributeError
R_Visualization ==
    /\ pc = "r_visualization"
    /\ invoked' = Append(invoked, "visualization_agent")
    /\ inputs' = ("visualization_agent" :> context) @@ inputs
    /\ exc' = <<"AttributeError">>
    /\ ret' = <<"raised">>
    /\ pc' = ExceptPc
    /\ UNCHANGED <<context, history, returned, res, branches, texts>>
    /\ RunFrame /\ UNCHANGED retryVars

RunNext ==
    \/ R_Data \/ R_Estimation \/ R_ParBegin
    \/ (\E b \in FanOut : R_ParReturn(b))
    \/ (\E b \in FanOut : R_ParRaise(b))
    \/ R_Merge \/ R_Scenario \/ R_Visualization

-----------------------------------------------------------------------------
(* run_analysis_task *)

A_Running ==
    /\ pc = "queued" /\ entry = "analysis"
    /\ SetField("status", "running")
    /\ pc' = "a_init"
    /\ PipeFrame /\ UNCHANGED retryVars

A_Init ==
    /\ pc = "a_init"
    /\ SetField("current", "Initializing...")
    /\ pc' = "a_step"
    /\ PipeFrame /\ UNCHANGED retryVars

\* update_progress("Data Agent", 10): two assignments
A_Step ==
    /\ pc = "a_step"
    /\ SetField("current", "Data Agent")
    /\ pc' = "a_progress"
    /\ PipeFrame /\ UNCHANGED retryVars

A_Progress ==
    /\ pc = "a_progress"
    /\ SetField("progress", 10)
    /\ context' = UserInput
    /\ history' = Empty
    /\ returned' = Empty
    /\ pc' = "r_data"
    /\ UNCHANGED <<seen, got, entry, res, stage, invoked, inputs, exc, branches, texts, ret>>
    /\ UNCHANGED retryVars

\* what follows orchestrator.run's return, up to the completion block:
\* save_json and the report and chart files
A_Save ==
    /\ pc = "a_save"
    /\ \/ pc' = "a_c_status" /\ exc' = exc
       \/ pc' = "a_x_status" /\ exc' = <<"save_json raised">>
    /\ UNCHANGED <<seen, got, entry, runs, context, history, returned, res, stage, invoked, inputs,
                   branches, texts, ret>>
    /\ UNCHANGED retryVars

A_CompleteStatus ==
    /\ pc = "a_c_status"
    /\ SetField("status", "completed")
    /\ pc' = "a_c_progress"
    /\ PipeFrame /\ UNCHANGED retryVars

A_CompleteProgress ==
    /\ pc = "a_c_progress"
    /\ SetField("progress", 100)
    /\ pc' = "a_c_current"
    /\ PipeFrame /\ UNCHANGED retryVars

A_CompleteCurrent ==
    /\ pc = "a_c_current"
    /\ SetField("current", "Complete")
    /\ pc' = "a_c_completed_at"
    /\ PipeFrame /\ UNCHANGED retryVars

A_CompleteAt ==
    /\ pc = "a_c_completed_at"
    /\ SetField("completed_at", "now")
    /\ pc' = "a_c_result"
    /\ PipeFrame /\ UNCHANGED retryVars

A_CompleteResult ==
    /\ pc = "a_c_result"
    /\ SetField("result", <<history>>)
    /\ pc' = "a_c_extras"
    /\ PipeFrame /\ UNCHANGED retryVars

\* report_markdown, sankey_available, pathway_available: three assignments
A_CompleteExtras ==
    /\ pc = "a_c_extras"
    /\ \E f \in {"report_markdown", "sankey_available", "pathway_available"} :
          /\ f \notin Rec.extras
          /\ f = "sankey_available" => "report_markdown" \in Rec.extras
          /\ f = "pathway_available" => "sankey_available" \in Rec.extras
          /\ SetField("extras", Rec.extras \cup {f})
          /\ pc' = IF f = "pathway_available" THEN "done" ELSE "a_c_extras"
    /\ PipeFrame /\ UNCHANGED retryVars

A_ExceptStatus ==
    /\ pc = "a_x_status"
    /\ SetField("status", "failed")
    /\ pc' = "a_x_error"
    /\ PipeFrame /\ UNCHANGED retryVars

A_ExceptError ==
    /\ pc = "a_x_error"
    /\ SetField("error", exc[1])
    /\ pc' = "a_x_completed_at"
    /\ PipeFrame /\ UNCHANGED retryVars

A_ExceptAt ==
    /\ pc = "a_x_completed_at"
    /\ SetField("completed_at", "now")
    /\ pc' = "done"
    /\ PipeFrame /\ UNCHANGED retryVars

AnalysisNext ==
    \/ A_Running \/ A_Init \/ A_Step \/ A_Progress \/ A_Save
    \/ A_CompleteStatus \/ A_CompleteProgress \/ A_CompleteCurrent \/ A_CompleteAt
    \/ A_CompleteResult \/ A_CompleteExtras
    \/ A_ExceptStatus \/ A_ExceptError \/ A_ExceptAt

-----------------------------------------------------------------------------
(* execute_run_task and the runs collection *)

\* update_run_status: one $set of status and of every argument that is not
\* None; completed_at is set with a status of completed or failed.  progress,
\* current_agent and error are <<>> for None, else <<value>>.
UpdateRunStatus(r, status, progress, current_agent, error) ==
    [r EXCEPT !.status = status,
              !.progress = IF progress = <<>> THEN @ ELSE progress[1],
              !.current = IF current_agent = <<>> THEN @ ELSE current_agent[1],
              !.error = IF error = <<>> THEN @ ELSE error[1],
              !.completed_at = IF status \in {"completed", "failed"} THEN "now" ELSE @]

\* get_project, when the inventory names a project: it returns or raises
E_Project ==
    /\ pc = "queued" /\ entry = "exec"
    /\ \/ pc' = "e_running0" /\ exc' = exc
       \/ pc' = "e_x_status" /\ exc' = <<"get_project raised">>
    /\ UNCHANGED <<seen, got, entry, runs, context, history, returned, res, stage, invoked, inputs,
                   branches, texts, ret>>
    /\ UNCHANGED retryVars

E_Running0 ==
    /\ pc = "e_running0"
    /\ runs' = [runs EXCEPT ![RunId] =
                  UpdateRunStatus(@, "running", <<0>>, <<"DataAgent">>, <<>>)]
    /\ pc' = "e_log0"
    /\ PipeFrame /\ UNCHANGED retryVars

E_Log0 ==
    /\ pc = "e_log0"
    /\ AddLog("system", "info")
    /\ pc' = "e_running10"
    /\ PipeFrame /\ UNCHANGED retryVars

E_Running10 ==
    /\ pc = "e_running10"
    /\ runs' = [runs EXCEPT ![RunId] =
                  UpdateRunStatus(@, "running", <<10>>, <<"DataAgent">>, <<>>)]
    /\ pc' = "e_log1"
    /\ PipeFrame /\ UNCHANGED retryVars

E_Log1 ==
    /\ pc = "e_log1"
    /\ AddLog("DataAgent", "info")
    /\ context' = UserInput
    /\ history' = Empty
    /\ returned' = Empty
    /\ pc' = "r_data"
    /\ UNCHANGED <<seen, got, entry, res, stage, invoked, inputs, exc, branches, texts, ret>>
    /\ UNCHANGED retryVars

\* result = await orchestrator.run(user_input): run is a plain function, so
\* the dict it returned is awaited and TypeError is raised
E_Await ==
    /\ pc = "e_await"
    /\ exc' = <<"TypeError">>
    /\ pc' = "e_x_status"
    /\ UNCHANGED <<seen, got, entry, runs, context, history, returned, res, stage, invoked, inputs,
                   branches, texts, ret>>
    /\ UNCHANGED retryVars

\* except Exception as e: update_run_status(run_id, "failed", error=error_msg)
E_ExceptStatus ==
    /\ pc = "e_x_status"
    /\ runs' = [runs EXCEPT ![RunId] =
                  UpdateRunStatus(@, "failed", <<>>, <<>>, <<exc[1]>>)]
    /\ pc' = "e_x_log"
    /\ PipeFrame /\ UNCHANGED retryVars

E_ExceptLog ==
    /\ pc = "e_x_log"
    /\ AddLog("system", "error")
    /\ pc' = "done"
    /\ PipeFrame /\ UNCHANGED retryVars

ExecNext ==
    \/ E_Project \/ E_Running0 \/ E_Log0 \/ E_Running10 \/ E_Log1 \/ E_Await
    \/ E_ExceptStatus \/ E_ExceptLog

-----------------------------------------------------------------------------
(* The result endpoints *)

\* get_orchestration_result / get_analysis_result: 404 for an unknown run, 400
\* unless the status is completed, else the record's result (<<>> for None)
GetResult ==
    /\ entry \in {"orch", "analysis"}
    /\ got' = IF ~Started THEN <<[code |-> 404, result |-> <<>>]>>
              ELSE IF Rec.status # "completed" THEN <<[code |-> 400, result |-> <<>>]>>
              ELSE <<[code |-> 200, result |-> Rec.result]>>
    /\ UNCHANGED <<seen, entry, pc, runs, context, history, returned, res, stage, invoked,
                   inputs, exc, branches, texts, ret>>
    /\ UNCHANGED retryVars

\* get_orchestration_status / get_analysis_status / get_run_status: a coroutine
\* the event loop runs when it is free; 404 for an unknown run, else the
\* record's status and progress
FoundWhileRunning(store) == RunId \in DOMAIN store /\ store[RunId].status = "running"
\* if run_id not in orchestration_runs: raise HTTPException(404)
Found(store) == RunId \in DOMAIN store

GetStatus ==
    /\ ~LoopHeld
    /\ seen' = IF ~Found(runs) THEN <<[code |-> 404, status |-> None, progress |-> None]>>
               ELSE <<[code |-> 200, status |-> Rec.status, progress |-> Rec.progress]>>
    /\ UNCHANGED <<got, entry, pc, runs, context, history, returned, res, stage, invoked,
                   inputs, exc, branches, texts, ret>>
    /\ UNCHANGED retryVars

-----------------------------------------------------------------------------

(* run_with_retry *)

MaxRetries == 3

\* Error messages, each the set of the marker texts it contains.
Messages == { {"429"}, {"RESOURCE_EXHAUSTED"}, {"Quota exceeded"}, {"Value: 100%"},
              {"validation"} }
ReturnValues == {"v1", "v2"}
InitialDelays == {1, 60}

\* One invocation of coro_func returns a value or raises an error.
OpOutcomes ==
    {[kind |-> "ok", value |-> v, msg |-> {}] : v \in ReturnValues}
    \cup {[kind |-> "err", value |-> None, msg |-> m] : m \in Messages}

Scripts == [1..MaxRetries -> OpOutcomes]

\* "<marker>" in error_str
Contains(msg, marker) == marker \in msg

IsRateLimitOnly429(msg) == Contains(msg, "429")
IsRateLimitAny(msg) == TRUE
IsRateLimit(msg) ==
    \/ Contains(msg, "429")
    \/ Contains(msg, "RESOURCE_EXHAUSTED")
    \/ Contains(msg, "Quota exceeded")
    \/ Contains(msg, "Value: 100%")

\* i == retries - 1
LastAttemptEarly(i, n) == i >= n - 2
LastAttempt(i, n) == i = n - 1

\* delay *= 2
NextDelayKept(d) == d
NextDelay(d) == d * 2

Returned(n, o) == [kind |-> "return", call |-> n, value |-> o.value, msg |-> {}]
Raised(n, o) == [kind |-> "raise", call |-> n, value |-> None, msg |-> o.msg]
\* raise last_exception with last_exception = None: Python's own TypeError
RaisedNone == [kind |-> "raise", call |-> 0, value |-> None, msg |-> {"TypeError"}]

RetryInit ==
    /\ script \in Scripts
    /\ retries \in 0..MaxRetries
    /\ initial_delay \in InitialDelays
    /\ delay = initial_delay
    /\ attempt = 0
    /\ calls = <<>>
    /\ sleeps = <<>>
    /\ outcome = <<>>
    /\ rpc = "loop"

\* for i in range(retries): ... and the raise last_exception after the loop
RW_Loop ==
    /\ rpc = "loop"
    /\ IF attempt < retries
       THEN rpc' = "call" /\ outcome' = outcome
       ELSE rpc' = "done" /\ outcome' = <<RaisedNone>>
    /\ UNCHANGED <<script, retries, initial_delay, attempt, delay, calls, sleeps>>
    /\ UNCHANGED pipeVars

\* the try block: one invocation, and the except clause up to the sleep
RW_Call ==
    /\ rpc = "call"
    /\ LET n == Len(calls) + 1
           o == script[n]
       IN /\ calls' = Append(calls, o)
          /\ IF o.kind = "ok"
             THEN rpc' = "done" /\ outcome' = <<Returned(n, o)>>
             ELSE IF IsRateLimit(o.msg)
                  THEN IF LastAttempt(attempt, retries)
                       THEN rpc' = "done" /\ outcome' = <<Raised(n, o)>>
                       ELSE rpc' = "sleep" /\ outcome' = outcome
                  ELSE rpc' = "done" /\ outcome' = <<Raised(n, o)>>
    /\ UNCHANGED <<script, retries, initial_delay, attempt, delay, sleeps>>
    /\ UNCHANGED pipeVars

\* await asyncio.sleep(delay); delay *= 2; next i
RW_Sleep ==
    /\ rpc = "sleep"
    /\ sleeps' = Append(sleeps, delay)
    /\ delay' = NextDelay(delay)
    /\ attempt' = attempt + 1
    /\ rpc' = "loop"
    /\ UNCHANGED <<script, retries, initial_delay, calls, outcome>>
    /\ UNCHANGED pipeVars

RetryNext == RW_Loop \/ RW_Call \/ RW_Sleep

\* a call of run_with_retry on its own: no run is under way
InitRetry == PipeInit /\ entry = "orch" /\ RetryInit

SpecRetry == InitRetry /\ [][RetryNext]_vars

-----------------------------------------------------------------------------

\* the steps of the background tasks
TaskNext == Start \/ OrchNext \/ RunNext \/ AnalysisNext \/ ExecNext

Next == TaskNext \/ GetResult

Spec == Init /\ [][Next]_vars

\* The background tasks with a poller of the status endpoint.
PollNext == TaskNext \/ GetStatus
SpecPoll == Init /\ [][PollNext]_vars

\* The background task is scheduled whenever it has a step to take.
LiveSpec == Init /\ [][TaskNext]_vars /\ WF_vars(TaskNext)

-----------------------------------------------------------------------------
(* Properties *)

Terminal == {"completed", "failed"}
StageSet == {OrchStages[i] : i \in 1..Len(OrchStages)}

Ran(s) == s \in DOMAIN history
Succeeded(s) == Ran(s) /\ history[s].status = "success"
IntakeFailed == Ran("data_agent") /\ history["data_agent"].status # "success"

\* a stage's handle raised into the orchestrating code
StageRaised == exc = <<"stage raised">>
\* no stage raised, a fan-out branch included
NoStageRaised ==
    ~StageRaised /\ \A b \in DOMAIN branches : branches[b] \notin {"raised", "cancelled"}

\* C1: when the Intake stage (Data Agent) returns a result whose status is not
\* success, no stage declared after it is invoked in that run: the
\* stage-invocation log holds the Intake stage alone.
C1_NoStageAfterFailedIntake ==
    IntakeFailed => invoked = <<"data_agent">>

C1_Witness ==
    /\ pc = "done"
    /\ IntakeFailed
    /\ history["data_agent"].status = "partial"
    /\ invoked = <<"data_agent">>

\* C2: in every entry point, when the Intake stage fails the run's record is
\* never set to Completed and the run ends with status Failed.
C2_FailedIntakeEndsFailed ==
    (Started /\ IntakeFailed) =>
        /\ Rec.status # "completed"
        /\ (pc = "done" => Rec.status = "failed")

\* The run reached Completed: its status is completed, or was (the result is
\* written only by the completion block, after the status).
ReachedCompleted == Rec.status = "completed" \/ Rec.result # <<>>

\* C3: a run whose Intake stage succeeded and in which no stage raised (the
\* optional stages returned Success or Failure results) reaches Completed.
C3_OptionalFailuresStillComplete ==
    (pc = "done" /\ Succeeded("data_agent") /\ NoStageRaised) => ReachedCompleted

ContextBase ==
    IF Succeeded("estimation_agent") THEN returned["estimation_agent"]
    ELSE IF Succeeded("data_agent") THEN returned["data_agent"]
    ELSE UserInput

MergedData(s) == IF Succeeded(s) THEN returned[s] ELSE Empty

C5_OptionalExceptionAbsorbed ==
    (entry = "orch" /\ StageRaised /\ Stage # "data_agent") =>
        /\ Rec.status # "failed"
        /\ (pc = "done" => ReachedCompleted)

AllowedStatusStep(a, b) ==
    \/ a = b
    \/ a \in {"starting", "pending"} /\ b = "running"
    \/ a = "running" /\ b \in Terminal

\* The first half of C6: a record's status changes only along
\* Created/Pending -> Running -> Completed or Running -> Failed.
StatusStateMachine ==
    [][(Started /\ Started') => AllowedStatusStep(Rec.status, Rec'.status)]_vars

\* C6: once a record's status is Completed or Failed it never changes again;
\* in particular a run that has been marked Completed is never afterwards
\* marked Failed.
C6_TerminalStatusAbsorbing ==
    [][(Started /\ Rec.status \in Terminal) => Rec'.status = Rec.status]_vars

\* C7: once a record's status is Completed or Failed, no later step of the run
\* modifies any field of the record.
C7_TerminalRecordFrozen ==
    [][(Started /\ Rec.status \in Terminal) => runs' = runs]_vars

\* C8: the progress of a run's record never decreases from one read to a later
\* one, whenever the two reads are taken.
C8_ProgressMonotonic ==
    [][(Started /\ Started') => Rec'.progress >= Rec.progress]_vars

C8_Witness ==
    /\ entry = "orch"
    /\ pc = "done"
    /\ Rec.status = "completed"
    /\ Rec.progress = 100
    /\ Len(invoked) = Len(OrchStages)

\* The rate-limit and quota markers that make an error transient.
TransientMarkers == {"429", "RESOURCE_EXHAUSTED", "Quota exceeded", "Value: 100%"}
Transient(o) == o.kind = "err" /\ o.msg \cap TransientMarkers # {}

\* C9: for retries >= 1 and k < retries, an operation that fails transiently
\* exactly k times and then succeeds is invoked exactly k+1 times, and
\* run_with_retry returns the value of that successful invocation.
C9_RetryReturnsAfterTransientFailures ==
    (rpc = "done" /\ retries >= 1) =>
        \A k \in 0..(retries - 1) :
            ((\A j \in 1..k : Transient(script[j])) /\ script[k + 1].kind = "ok") =>
                /\ Len(calls) = k + 1
                /\ outcome = <<Returned(k + 1, script[k + 1])>>

C9_Witness ==
    /\ rpc = "done"
    /\ retries = MaxRetries
    /\ Len(calls) = MaxRetries
    /\ \A j \in 1..(MaxRetries - 1) : Transient(script[j])
    /\ outcome # <<>> /\ outcome[1].kind = "return" /\ outcome[1].value = "v2"

\* C10: for retries >= 1, an operation that fails transiently on every
\* invocation is invoked exactly retries times, and run_with_retry then raises
\* the error of the last invocation.
C10_RetryExhaustedRaisesLast ==
    (rpc = "done" /\ retries >= 1 /\ \A j \in 1..retries : Transient(script[j])) =>
        /\ Len(calls) = retries
        /\ outcome = <<Raised(retries, script[retries])>>

C10_Witness ==
    /\ rpc = "done"
    /\ retries = MaxRetries
    /\ \A j \in 1..retries : Transient(script[j])
    /\ script[1].msg # script[retries].msg
    /\ Len(calls) = retries
    /\ outcome # <<>> /\ outcome[1].kind = "raise" /\ outcome[1].msg = script[retries].msg

NonTransient(o) == o.kind = "err" /\ o.msg \cap TransientMarkers = {}

\* C11: an invocation that fails with a non-transient error, on the first
\* attempt or after transient failures, is the last one: run_with_retry is
\* done raising that error, no sleep follows it and the operation is not
\* invoked again.
C11_NonTransientRaisedAtOnce ==
    \A j \in 1..Len(calls) :
        NonTransient(calls[j]) =>
            /\ j = Len(calls)
            /\ Len(sleeps) = j - 1
            /\ rpc = "done"
            /\ outcome = <<Raised(j, calls[j])>>

C11_Witness ==
    /\ rpc = "done"
    /\ retries = MaxRetries
    /\ Len(calls) = 2
    /\ Transient(calls[1])
    /\ NonTransient(calls[2])
    /\ sleeps = <<initial_delay>>
    /\ outcome = <<Raised(2, script[2])>>

RECURSIVE Pow2(_)
Pow2(n) == IF n = 0 THEN 1 ELSE 2 * Pow2(n - 1)

\* C12: the sleep before the j-th retry lasts initial_delay * 2^(j-1); a sleep
\* is made only between two invocations, so a call that has made n >= 1
\* invocations has slept n-1 times when it ends, and never after its last one.
C12_BackoffDelays ==
    /\ \A j \in 1..Len(sleeps) : sleeps[j] = initial_delay * Pow2(j - 1)
    /\ Len(calls) = 0 => Len(sleeps) = 0
    /\ Len(calls) >= 1 => Len(sleeps) \in {Len(calls) - 1, Len(calls)}
    /\ (rpc \in {"sleep", "done"} /\ Len(calls) >= 1) =>
            Len(sleeps) = Len(calls) - 1

C12_Witness ==
    /\ rpc = "done"
    /\ initial_delay = 60
    /\ Len(calls) = 3
    /\ sleeps = <<60, 120>>

\* the fan-out group is over and its results are merged
FanOutMerged ==
    IF entry = "orch" THEN stage >= 5 ELSE "parallel_stage" \in DOMAIN history

\* a fan-out branch returned a Success result / the data it returned
BranchSucceeded(b) ==
    IF entry = "orch" THEN Succeeded(b)
    ELSE /\ branches[b] = "done"
         /\ texts[b].kind = "json"
         /\ texts[b].status = "success"
BranchData(b) == IF entry = "orch" THEN returned[b] ELSE texts[b].data

\* a fan-out branch failed: it returned no Success result, or raised
BranchFailed(b) ==
    IF entry = "orch"
    THEN (Ran(b) /\ ~Succeeded(b)) \/ (StageRaised /\ Stage = b)
    ELSE branches[b] = "raised" \/ (branches[b] = "done" /\ ~BranchSucceeded(b))

\* C13: after the fan-out group the context holds the data keys of every
\* branch that succeeded (of both when both did, of the surviving one when the
\* other failed, by raising included), and a run with one failed branch still
\* reaches Completed.
C13_SurvivingBranchMerged ==
    /\ FanOutMerged =>
          \A b \in FanOut : BranchSucceeded(b) => Keys(BranchData(b)) \subseteq Keys(context)
    /\ (pc = "done" /\ \E a, b \in FanOut : BranchSucceeded(a) /\ BranchFailed(b)) =>
          ReachedCompleted

\* C14: both fan-out members are given the same context snapshot.
C14_FanOutSameSnapshot ==
    (\A b \in FanOut : b \in DOMAIN inputs) =>
        inputs["lca_agent"] = inputs["circularity_agent"]

\* C15: the Scenario stage is not invoked while a fan-out branch is still
\* running: each branch has returned, raised or been cancelled (has put its
\* result into the history, for the branches run in sequence; was never
\* started, where asyncio.run refused to run).
C15_ScenarioAfterBothBranches ==
    "scenario_agent" \in DOMAIN inputs =>
        \A b \in FanOut :
            CASE entry = "orch" -> Ran(b)
              [] OnEventLoop -> branches[b] = "idle"
              [] OTHER -> branches[b] \in {"done", "raised", "cancelled"}

C15_Witness ==
    /\ "scenario_agent" \in DOMAIN inputs
    /\ branches["lca_agent"] = "raised"
    /\ branches["circularity_agent"] = "cancelled"

\* the declared order: Intake, Parameter-Estimation, {Impact, Circularity},
\* Scenario-Generation, Visualization, Narrative-Explanation, Compliance-Check,
\* Quality-Critique
DeclaredRank(s) ==
    CASE s = "data_agent" -> 1
      [] s = "estimation_agent" -> 2
      [] s \in {"lca_agent", "circularity_agent"} -> 3
      [] s = "scenario_agent" -> 4
      [] s = "visualization_agent" -> 5
      [] s = "explain_agent" -> 6
      [] s = "compliance_agent" -> 7
      [] s = "critique_agent" -> 8

\* C16: stages are invoked in the declared order: a stage invoked after
\* another is not declared before it.
C16_DeclaredOrder ==
    \A i, j \in 1..Len(invoked) :
        i < j => DeclaredRank(invoked[i]) <= DeclaredRank(invoked[j])

\* C17: whenever the result endpoint returns a result, the value is the run's
\* final, non-null result.
C17_ResultFinalAndNonNull ==
    (got # <<>> /\ got[1].code = 200) =>
        /\ got[1].result # <<>>
        /\ pc = "done" => got[1].result = Rec.result

\* C18: a record whose status is Completed has progress 100 and completed_at
\* set, at every point at which it can be read.
C18_CompletedRecordIsWhole ==
    (Started /\ Rec.status = "completed") =>
        /\ Rec.progress = 100
        /\ Rec.completed_at # None

\* C19: every run that has been started eventually ends, with status Completed
\* or Failed.
C19_RunTerminates ==
    Started ~> (pc = "done" /\ Rec.status \in Terminal)

C19_Witness ==
    /\ Started
    /\ pc = "done"
    /\ Rec.status \in Terminal
    /\ Len(invoked) >= 5

\* the worked example: Intake succeeds with {material, validated}, Estimation
\* fails, Impact succeeds with {gwp}, Circularity succeeds with {mci}, and no
\* stage raises
WorkedExample ==
    /\ Succeeded("data_agent")
    /\ returned["data_agent"] = ("material" :> "steel") @@ ("validated" :> "true")
    /\ Ran("estimation_agent") /\ ~Succeeded("estimation_agent")
    /\ \A b \in FanOut : (Ran(b) \/ b \in DOMAIN texts) /\ BranchSucceeded(b)
    /\ BranchData("lca_agent") = ("gwp" :> "1800")
    /\ BranchData("circularity_agent") = ("mci" :> "0.4")
    /\ NoStageRaised

\* C20: the run of the worked example ends Completed with the context
\* {material: steel, validated: true, gwp: 1800, mci: 0.4}.
C20_WorkedExample ==
    (pc = "done" /\ WorkedExample) =>
        /\ Rec.status = "completed"
        /\ context = ("material" :> "steel") @@ ("validated" :> "true")
                      @@ ("gwp" :> "1800") @@ ("mci" :> "0.4")

\* C23: when the Intake stage fails with log text L, the record's error is L.
C23_ErrorIsIntakeLog ==
    (Started /\ pc = "done" /\ IntakeFailed) =>
        <<Rec.error>> = history["data_agent"].log

\* C25: a PartialSuccess result of the Intake stage is handled like Success:
\* the run goes on to the next stage and does not fail on it.
C25_PartialIntakeContinues ==
    (Started /\ pc = "done" /\ Ran("data_agent")
        /\ history["data_agent"].status = "partial") =>
        /\ Len(invoked) > 1
        /\ Rec.error # "Data Agent failed"

\* C29: a record whose run has ended with status Completed or Failed has
\* completed_at set, whichever path led there.
C29_TerminalHasCompletedAt ==
    (Started /\ pc = "done" /\ Rec.status \in Terminal) => Rec.completed_at # None

\* C30: run_with_retry ends by returning a value the operation returned or by
\* raising an error the operation raised, for retries = 0 too.
C30_RetryEndsWithOperationsOutcome ==
    rpc = "done" =>
        \E n \in 1..Len(calls) :
            outcome = <<IF calls[n].kind = "ok" THEN Returned(n, calls[n])
                        ELSE Raised(n, calls[n])>>

\* C24: a stage whose result has status Failure leaves the context as it was:
\* the step that handles the Failure result of a stage, and the merge of a
\* fan-out group none of whose branches returned Success, do not change it.
C24_FailureLeavesContext ==
    [][/\ (pc = "o_result" /\ res[1].status = "failure") => context' = context
       /\ (pc = "r_estimation" /\ pc' = "r_par_begin" /\ res'[1].status = "failure") =>
              context' = context
       /\ (pc = "r_merge" /\ \A b \in FanOut : ~BranchSucceeded(b)) =>
              context' = context]_vars

\* the values of the current-stage field that name a stage
NamesOf(s) ==
    IF s = "data_agent" THEN {"DataAgent", "Data Agent"} ELSE {AgentName(s)}

\* C26: while a stage is being invoked, the current-stage field of the run's
\* record names that stage (one of the two for the fan-out group).
C26_CurrentNamesInvokedStage ==
    Started =>
        /\ pc = "o_invoke" => Rec.current \in NamesOf(Stage)
        /\ pc = "r_data" => Rec.current \in NamesOf("data_agent")
        /\ pc = "r_estimation" => Rec.current \in NamesOf("estimation_agent")
        /\ pc = "r_par" =>
              Rec.current \in NamesOf("lca_agent") \cup NamesOf("circularity_agent")
        /\ pc = "r_scenario" => Rec.current \in NamesOf("scenario_agent")
        /\ pc = "r_visualization" => Rec.current \in NamesOf("visualization_agent")

\* a stage invocation is under way
InsideStage ==
    pc \in {"o_invoke", "r_data", "r_estimation", "r_par", "r_scenario",
            "r_visualization"}

\* C22: while a run is inside a stage invocation the shared scheduler can
\* still serve the others: a status query is answered.
C22_OthersProgressDuringStage ==
    (Started /\ InsideStage) => ENABLED GetStatus

WrittenData(s) == IF s \in FanOut THEN BranchData(s) ELSE returned[s]
Writes(s, x) ==
    /\ IF s \in FanOut THEN BranchSucceeded(s) ELSE Succeeded(s)
    /\ x \in Keys(WrittenData(s))

\* B is the last declared of at least two stages that wrote key x
LastWriter(B, x) ==
    /\ Writes(B, x)
    /\ \E A \in StageSet : DeclaredRank(A) < DeclaredRank(B) /\ Writes(A, x)
    /\ \A o \in StageSet \ {B} : Writes(o, x) => DeclaredRank(o) < DeclaredRank(B)

\* C21: when two stages, one declared before the other, both return Success
\* with a value for the same key, the context at the end of the run maps the
\* key to the value of the one declared last.
C21_LastWriterWins ==
    (Started /\ pc = "done") =>
        \A B \in StageSet : \A x \in {"x", "material", "validated"} :
            LastWriter(B, x) => (x \in Keys(context) /\ context[x] = WrittenData(B)[x])

\* C28: at the end of a run the history entries of Intake and
\* Parameter-Estimation hold exactly the data those stages returned.
C28_HistoryEntriesKept ==
    (Started /\ pc = "done") =>
        \A s \in {"data_agent", "estimation_agent"} :
            Ran(s) => history[s].data = returned[s]

====
